---------------------------- MODULE Spec2Model ----------------------------
(***************************************************************************)
(* Model of OCELBuilder (src/ocel-generator.py): the trace-to-log          *)
(* materialization engine.  One builder instance; add_traces may be called *)
(* several times on it.  Each activity handler is one action.              *)
(*                                                                         *)
(* Representation.                                                         *)
(*  - Identifier strings are tuples of their fields: "pat-007" is          *)
(*    <<"pat", 7>>, "test-001-2" is <<"test", 1, 2>>, "e12" is <<"e", 12>>,*)
(*    "or3" is <<"or", 3>>; zero padding (zfill, :03d, :04d) never maps two*)
(*    numbers to one string, so the number stands for its padded rendering.*)
(*  - datetimes are integers, milliseconds since base_time; iso() keeps    *)
(*    whole seconds only, so an iso string is the number of whole seconds. *)
(*  - the two seeded generators (random, numpy.random) are deterministic   *)
(*    streams: a state, advanced at every draw.                            *)
(***************************************************************************)
EXTENDS Integers, Sequences, FiniteSets, TLC

(* ------------------------------ bounds -------------------------------- *)
\* length of a run: the passes of the loop of add_traces (traces begun) and
\* of the loop of _add_single_trace (labels taken), over all calls together
MaxPasses == 5

(* --------------------------- program constants ------------------------ *)
MsPerSecond == 1000
MsPerMinute == 60 * MsPerSecond
MsPerHour == 60 * MsPerMinute
\* max(10, minutes_to_add)
StepFloorMinutes == 10
\* timedelta(minutes=15) on the Test "findings" entry
FindingsDelayMinutes == 15
\* timedelta(minutes=30) on the Dose "adverse_event" entry
AdverseDelayMinutes == 30
\* base_time, the origin of the time axis
base_time == 0

Vocabulary ==
    { "OutpatientRegistration", "InitialVisit", "ImagingTest", "LabTest",
      "FollowUpVisit", "JointConsult", "MedicationTreatment", "Payment",
      "Discharge" }

\* The labels an input trace may hold: the vocabulary and one label outside it.
Labels == Vocabulary \cup { "XRay" }

\* rng_seed values the builder is constructed with (the default)
Seeds == { 42 }

None == <<>>

(* ------------------------------ generators ---------------------------- *)
RngModulus == 16

\* the generator's state after one draw
NextRand(r) == (5 * r + 3) % RngModulus

\* random.choice(seq) on generator state r
Choice(seq, r) == seq[(r % Len(seq)) + 1]

\* random.randint(a, b) on generator state r
RandInt(a, b, r) == a + (r % (b - a + 1))

\* random.random() > 0.2 on generator state r
RandomAbove02(r) == 5 * r > RngModulus

\* np.random.normal(mean, std) in milliseconds, on generator state r:
\* values below the floor, negative, just above the floor, and ordinary ones
NormalSamplesMs == << 34967 * 60, 5 * MsPerMinute, 10 * MsPerMinute + 1,
                      47 * MsPerMinute, -2 * MsPerMinute, 12 * MsPerMinute + 500 >>

Normal(r) == NormalSamplesMs[(r % Len(NormalSamplesMs)) + 1]

(* ------------------------------ pure helpers -------------------------- *)
Max(a, b) == IF a >= b THEN a ELSE b

\* iso(dt): strftime("%Y-%m-%dT%H:%M:%SZ") drops the sub-second part
iso(dt) == dt \div MsPerSecond

\* mutant: the sampled minutes are used as they are, without the floor
StepOfNoFloor(sampleMs) == sampleMs

\* step = timedelta(minutes=max(10, minutes_to_add))
StepOf(sampleMs) == Max(StepFloorMinutes * MsPerMinute, sampleMs)

\* t = base_time + timedelta(hours=trace_index-1)
TraceStart(trace_index) == base_time + (trace_index - 1) * MsPerHour

\* mutant: the scan runs from the oldest object and stops at the first hit
FindFirst(objs, obj_id) ==
    LET hits == { i \in 1..Len(objs) : objs[i].id = obj_id }
    IN IF hits = {} THEN 0 ELSE CHOOSE i \in hits : \A j \in hits : i <= j

\* index of the last object with this id (reversed scan), 0 when there is none
FindLast(objs, obj_id) ==
    LET hits == { i \in 1..Len(objs) : objs[i].id = obj_id }
    IN IF hits = {} THEN 0 ELSE CHOOSE i \in hits : \A j \in hits : j <= i

\* mutant: the first entry of the name is returned
GetObjAttrFirst(objs, obj_id, attr_name) ==
    LET i == FindLast(objs, obj_id)
    IN IF i = 0 THEN None
       ELSE LET vals == SelectSeq(objs[i].attributes,
                                  LAMBDA a : a.name = attr_name)
            IN IF Len(vals) > 0 THEN vals[1].value ELSE None

\* _get_obj_attr
GetObjAttr(objs, obj_id, attr_name) ==
    LET i == FindLast(objs, obj_id)
    IN IF i = 0 THEN None
       ELSE LET vals == SelectSeq(objs[i].attributes,
                                  LAMBDA a : a.name = attr_name)
            IN IF Len(vals) > 0 THEN vals[Len(vals)].value ELSE None

Attr(n, tm, v) == [name |-> n, time |-> tm, value |-> v]

\* mutant: an id that is not found is passed over in silence
AppendAttrNoRaise(objs, obj_id, n, tm, v) ==
    LET i == FindLast(objs, obj_id)
    IN IF i = 0 THEN [ok |-> TRUE, objects |-> objs]
       ELSE [ok |-> TRUE,
             objects |-> [objs EXCEPT ![i].attributes =
                                Append(@, Attr(n, tm, v))]]

\* mutant: the new entry takes the place of the object's last entry
AppendAttrOverwrite(objs, obj_id, n, tm, v) ==
    LET i == FindLast(objs, obj_id)
    IN IF i = 0 THEN [ok |-> FALSE, objects |-> objs]
       ELSE [ok |-> TRUE,
             objects |-> [objs EXCEPT ![i].attributes =
                                [@ EXCEPT ![Len(@)] = Attr(n, tm, v)]]]

\* _append_attr: [ok, objects]; ok is FALSE where the code raises KeyError
AppendAttr(objs, obj_id, n, tm, v) ==
    LET i == FindLast(objs, obj_id)
    IN IF i = 0 THEN [ok |-> FALSE, objects |-> objs]
       ELSE [ok |-> TRUE,
             objects |-> [objs EXCEPT ![i].attributes =
                                Append(@, Attr(n, tm, v))]]

\* _append_obj_attrs, and the loop of _emit_event_followup: the appends are
\* made in order and stop at the first KeyError
RECURSIVE AppendObjAttrs(_, _)
AppendObjAttrs(objs, reqs) ==
    IF reqs = <<>> THEN [ok |-> TRUE, objects |-> objs]
    ELSE LET r == AppendAttr(objs, reqs[1].id, reqs[1].name,
                             reqs[1].time, reqs[1].value)
         IN IF r.ok THEN AppendObjAttrs(r.objects, Tail(reqs)) ELSE r

Req(i, n, tm, v) == [id |-> i, name |-> n, time |-> tm, value |-> v]

Rel(o, q) == [objectId |-> o, qualifier |-> q]

EvAttr(n, v) == [name |-> n, value |-> v]


(* --------------------------- identifier allocator --------------------- *)
type_prefix ==
    [ Patient |-> "pat", Test |-> "test", Encounter |-> "enc",
      Diagnosis |-> "dx", TreatmentPlan |-> "plan", Dose |-> "med" ]

\* mutant: one counter serves every object type
NextObjSuffixShared(seq, type_name) ==
    IF "Patient" \in DOMAIN seq
    THEN [n |-> seq["Patient"], seq |-> [seq EXCEPT !["Patient"] = @ + 1]]
    ELSE [n |-> 1, seq |-> ("Patient" :> 2) @@ seq]

\* _next_obj_suffix: seq maps a type name to the next value of its counter;
\* a type's counter is created, at 1, on its first use
NextObjSuffix(seq, type_name) ==
    IF type_name \in DOMAIN seq
    THEN [n |-> seq[type_name], seq |-> [seq EXCEPT ![type_name] = @ + 1]]
    ELSE [n |-> 1, seq |-> (type_name :> 2) @@ seq]

\* _new_object_id
NewObjectId(seq, type_name) ==
    LET s == NextObjSuffix(seq, type_name)
    IN [oid |-> << type_prefix[type_name], s.n >>, seq |-> s.seq]

\* _new_event_id / uniq(series, "e")
NewEventId(n) == << "e", n >>

\* new_rel's f"or{next(self._o2o_seq)}"
NewRelId(n) == << "or", n >>

(* ------------------------------ object factory ------------------------ *)
\* The creators thread the builder's fields they touch as a record
\* b = [objects, seq, rng] and return [b, oid].

PatientKey(trace_index) == << "P", trace_index >>

\* _create_patient
CreatePatient(b, trace_index, tm) ==
    LET id == NewObjectId(b.seq, "Patient")
        r1 == NextRand(b.rng)
        obj == [ id |-> id.oid, type |-> "Patient",
                 attributes |-> <<
                   Attr("patient_id", iso(tm), PatientKey(trace_index)),
                   Attr("sex", iso(tm), Choice(<<"M", "F">>, b.rng)),
                   Attr("age", iso(tm), RandInt(20, 85, r1)),
                   Attr("contradindications", iso(tm), "none"),
                   Attr("allergies", iso(tm), "none"),
                   Attr("status", iso(tm), "Outpatient"),
                   Attr("condition", iso(tm), "Stable") >> ]
    IN [ b |-> [objects |-> Append(b.objects, obj), seq |-> id.seq,
                rng |-> NextRand(r1)],
         oid |-> id.oid ]

\* _create_visit
CreateVisit(b, trace_index, tm) ==
    LET id == NewObjectId(b.seq, "Encounter")
        obj == [ id |-> id.oid, type |-> "Encounter",
                 attributes |-> <<
                   Attr("enc_id", iso(tm), << "E", trace_index >>),
                   Attr("patient_id", iso(tm), PatientKey(trace_index)),
                   Attr("type", iso(tm), "Outpatient"),
                   Attr("dept", iso(tm), "Oncology"),
                   Attr("start_time", iso(tm), iso(tm)),
                   Attr("status", iso(tm), "open"),
                   Attr("reason", iso(tm),
                        Choice(<<"StomachPain", "ChestPain", "ThroatPain">>, b.rng)),
                   Attr("billing_status", iso(tm), "unpaid") >> ]
    IN [ b |-> [objects |-> Append(b.objects, obj), seq |-> id.seq,
                rng |-> NextRand(b.rng)],
         oid |-> id.oid ]

\* the custom Test id: f"test-{trace_index:03d}-{test_num_in_trace}"
TestId(trace_index, test_num_in_trace) ==
    << "test", trace_index, test_num_in_trace >>

\* _create_test
CreateTest(b, c, tm, modality) ==
    LET test_num_in_trace == Len(c.test_ids) + 1
        oid == TestId(c.trace_index, test_num_in_trace)
        obj == [ id |-> oid, type |-> "Test",
                 attributes |-> <<
                   Attr("test_id", iso(tm),
                        << "T", c.trace_index, modality, test_num_in_trace >>),
                   Attr("patient_id", iso(tm), PatientKey(c.trace_index)),
                   Attr("modality", iso(tm), modality),
                   Attr("perform_time", iso(tm), iso(tm)),
                   Attr("result_state", iso(tm), "Unreviewed"),
                   Attr("findings", iso(tm + FindingsDelayMinutes * MsPerMinute),
                        Choice(<<"Suspicious", "Normal">>, b.rng)) >> ]
    IN [ b |-> [objects |-> Append(b.objects, obj), seq |-> b.seq,
                rng |-> NextRand(b.rng)],
         oid |-> oid ]

\* _create_diagnosis
CreateDiagnosis(b, c, tm) ==
    LET id == NewObjectId(b.seq, "Diagnosis")
        r1 == NextRand(b.rng)
        obj == [ id |-> id.oid, type |-> "Diagnosis",
                 attributes |-> <<
                   Attr("dx_id", iso(tm), << "DX", c.trace_index >>),
                   Attr("patient_id", iso(tm), PatientKey(c.trace_index)),
                   Attr("primary_site", iso(tm),
                        Choice(<<"Lung", "Stomach", "Breast">>, b.rng)),
                   Attr("stage", iso(tm), Choice(<<"I", "II", "III", "IV">>, r1)),
                   Attr("confirm_time", iso(tm), iso(tm)) >> ]
    IN [ b |-> [objects |-> Append(b.objects, obj), seq |-> id.seq,
                rng |-> NextRand(r1)],
         oid |-> id.oid ]

\* _create_plan
CreatePlan(b, c, tm, diagnosis_id) ==
    LET id == NewObjectId(b.seq, "TreatmentPlan")
        dx_id_val == GetObjAttr(b.objects, diagnosis_id, "dx_id")
        r1 == NextRand(b.rng)
        obj == [ id |-> id.oid, type |-> "TreatmentPlan",
                 attributes |-> <<
                   Attr("plan_id", iso(tm), << "PLAN", c.trace_index >>),
                   Attr("patient_id", iso(tm), PatientKey(c.trace_index)),
                   Attr("dx_id", iso(tm), dx_id_val),
                   Attr("intent", iso(tm),
                        Choice(<<"curative", "palliative">>, b.rng)),
                   Attr("primary_modality", iso(tm), "medication"),
                   Attr("regimen", iso(tm),
                        Choice(<<"FOLFOX", "FOLFIRI", "CAPOX">>, r1)),
                   Attr("status", iso(tm), "Planned") >> ]
    IN [ b |-> [objects |-> Append(b.objects, obj), seq |-> id.seq,
                rng |-> NextRand(r1)],
         oid |-> id.oid ]

\* the custom Dose id: f"med-{trace_index:03d}-{med_num_in_trace}"
DoseId(trace_index, med_num_in_trace) ==
    << "med", trace_index, med_num_in_trace >>

\* _create_medication
CreateMedication(b, c, tm, plan_id) ==
    LET med_num_in_trace == Len(c.medication_ids) + 1
        oid == DoseId(c.trace_index, med_num_in_trace)
        plan_id_val == GetObjAttr(b.objects, plan_id, "plan_id")
        r1 == NextRand(b.rng)
        r2 == NextRand(r1)
        obj == [ id |-> oid, type |-> "Dose",
                 attributes |-> <<
                   Attr("admin_id", iso(tm),
                        << "D", c.trace_index, med_num_in_trace >>),
                   Attr("patient_id", iso(tm), PatientKey(c.trace_index)),
                   Attr("plan_id", iso(tm), plan_id_val),
                   Attr("drug_name", iso(tm),
                        Choice(<<"pembrolizumab", "trastuzumab", "paclitaxel">>,
                               b.rng)),
                   Attr("amount", iso(tm), RandInt(100, 500, r1)),
                   Attr("route", iso(tm), "IV"),
                   Attr("given_time", iso(tm), iso(tm)),
                   Attr("adverse_event",
                        iso(tm + AdverseDelayMinutes * MsPerMinute),
                        IF RandomAbove02(r2) THEN "None" ELSE "Nausea") >> ]
    IN [ b |-> [objects |-> Append(b.objects, obj), seq |-> b.seq,
                rng |-> NextRand(r2)],
         oid |-> oid ]

\* _init_trace_objects: the Patient is created before the Encounter
InitTraceObjects(b, trace_index, start_time) ==
    LET p == CreatePatient(b, trace_index, start_time)
        v == CreateVisit(p.b, trace_index, start_time)
    IN [ b |-> v.b,
         ctx |-> [ trace_index |-> trace_index,
                   start_time |-> start_time,
                   patient_id |-> p.oid,
                   visit_id |-> v.oid,
                   diagnosis_id |-> None,
                   plan_id |-> None,
                   medication_ids |-> <<>>,
                   test_ids |-> <<>>,
                   med_cycles |-> 0 ] ]

\* mutant: the Diagnosis is created without looking at ctx["diagnosis_id"]
EnsureDiagnosisAlways(b, c, tm) ==
    LET d == CreateDiagnosis(b, c, tm)
    IN [b |-> d.b, ctx |-> [c EXCEPT !.diagnosis_id = d.oid]]

\* "if ctx[...] is None: ctx[...] = self._create_...": the lazy creation that
\* opens _emit_event_mdt and _emit_event_medication; returns [b, ctx]
EnsureDiagnosis(b, c, tm) ==
    IF c.diagnosis_id = None
    THEN LET d == CreateDiagnosis(b, c, tm)
         IN [b |-> d.b, ctx |-> [c EXCEPT !.diagnosis_id = d.oid]]
    ELSE [b |-> b, ctx |-> c]

EnsurePlan(b, c, tm) ==
    IF c.plan_id = None
    THEN LET p == CreatePlan(b, c, tm, c.diagnosis_id)
         IN [b |-> p.b, ctx |-> [c EXCEPT !.plan_id = p.oid]]
    ELSE [b |-> b, ctx |-> c]

EnsureDiagnosisAndPlan(b, c, tm) ==
    LET d == EnsureDiagnosis(b, c, tm)
    IN EnsurePlan(d.b, d.ctx, tm)


(* ------------------------------ activity handlers --------------------- *)
\* Each handler is an operator on (b, c, tm, n): the builder fields
\* b = [objects, seq, rng], the trace context c, the cursor time tm and the
\* next event number n.  It returns [ok, b, ctx, emitted]: emitted are the
\* events it appended to self.events; ok is FALSE where the code raises
\* KeyError, and then b and ctx hold what was done before it.

\* mutant: the "subject" relationship names the Encounter
BaseRelsSubjectIsVisit(c) ==
    << Rel(c.visit_id, "subject"), Rel(c.visit_id, "encounter") >>

\* the two relationships every handler but _emit_event_payment starts with
BaseRels(c) ==
    << Rel(c.patient_id, "subject"), Rel(c.visit_id, "encounter") >>

Event(n, type, tm, attrs, rels) ==
    [ id |-> NewEventId(n), type |-> type, time |-> iso(tm),
      attributes |-> attrs, relationships |-> rels ]

\* mutant: the handler builds its event and does not append it
DoneNoAppend(b, c, e) == [ok |-> TRUE, b |-> b, ctx |-> c, emitted |-> << >>]

\* self.events.append(e), the last statement of a handler
Done(b, c, e) == [ok |-> TRUE, b |-> b, ctx |-> c, emitted |-> << e >>]

Raised(b, c) == [ok |-> FALSE, b |-> b, ctx |-> c, emitted |-> << >>]

\* mutant: registration creates the Patient once more
EmitEventRegistrationNewPatient(b, c, tm, n) ==
    LET p == CreatePatient(b, c.trace_index, tm)
    IN [ ok |-> TRUE, b |-> p.b, ctx |-> [c EXCEPT !.patient_id = p.oid],
         emitted |-> << [ id |-> NewEventId(n),
                          type |-> "OutpatientRegistration", time |-> iso(tm),
                          attributes |-> << EvAttr("ReceptionDesk",
                              << "Outpatient", (c.trace_index % 3) + 1 >>) >>,
                          relationships |->
                              << Rel(p.oid, "subject"),
                                 Rel(c.visit_id, "encounter") >> ] >> ]

\* _emit_event_registration
EmitEventRegistration(b, c, tm, n) ==
    Done(b, c,
         Event(n, "OutpatientRegistration", tm,
               << EvAttr("ReceptionDesk",
                         << "Outpatient", (c.trace_index % 3) + 1 >>) >>,
               BaseRels(c)))

\* _emit_event_initial_consult
EmitEventInitialConsult(b, c, tm, n) ==
    LET doctor == Choice(<<"Dr. Kim", "Dr. Cha", "Dr.Jung">>, b.rng)
        r1 == NextRand(b.rng)
        a == AppendAttr(b.objects, c.visit_id, "attending", iso(tm), doctor)
    IN IF ~a.ok THEN Raised([b EXCEPT !.rng = r1], c)
       ELSE Done([b EXCEPT !.objects = a.objects, !.rng = NextRand(r1)], c,
                 Event(n, "InitialVisit", tm,
                       << EvAttr("Department",
                                 Choice(<<"Oncology", "Surgery">>, r1)),
                          EvAttr("AttendingPhysician", doctor) >>,
                       BaseRels(c)))

\* mutant: the event relates to a Test that is not stored in self.objects
TestEventNotStored(b, c, tm, n, type, modalities) ==
    LET modality == Choice(modalities, b.rng)
        cr == CreateTest([b EXCEPT !.rng = NextRand(b.rng)], c, tm, modality)
        c1 == [c EXCEPT !.test_ids = Append(@, cr.oid)]
    IN Done([cr.b EXCEPT !.objects = b.objects], c1,
            Event(n, type, tm, << EvAttr("TestType", modality) >>,
                  BaseRels(c1) \o << Rel(cr.oid, "order") >>))

\* the common body of _emit_event_imaging and _emit_event_lab
TestEvent(b, c, tm, n, type, modalities) ==
    LET modality == Choice(modalities, b.rng)
        cr == CreateTest([b EXCEPT !.rng = NextRand(b.rng)], c, tm, modality)
        c1 == [c EXCEPT !.test_ids = Append(@, cr.oid)]
    IN Done(cr.b, c1,
            Event(n, type, tm, << EvAttr("TestType", modality) >>,
                  BaseRels(c1) \o << Rel(cr.oid, "order") >>))

\* _emit_event_imaging
EmitEventImaging(b, c, tm, n) ==
    TestEvent(b, c, tm, n, "ImagingTest", <<"CT", "MRI", "PET">>)

\* _emit_event_lab
EmitEventLab(b, c, tm, n) ==
    TestEvent(b, c, tm, n, "LabTest", <<"Blood", "Pathology">>)

\* _emit_event_followup
EmitEventFollowup(b, c, tm, n) ==
    LET reqs == [ i \in 1..Len(c.test_ids) |->
                    Req(c.test_ids[i], "result_state", iso(tm), "Reviewed") ]
        a == AppendObjAttrs(b.objects, reqs)
    IN IF ~a.ok THEN Raised([b EXCEPT !.objects = a.objects], c)
       ELSE Done([b EXCEPT !.objects = a.objects, !.rng = NextRand(b.rng)], c,
                 Event(n, "FollowUpVisit", tm,
                       << EvAttr("Assessment",
                                 Choice(<<"AdditionalTesting", "TreatmentPlanning",
                                          "Monitoring">>, b.rng)) >>,
                       BaseRels(c) \o
                       [ i \in 1..Len(c.test_ids) |->
                           Rel(c.test_ids[i], "reviewed_test") ]))

\* the "type" _emit_event_mdt writes on its event
MdtEventType == "MDT"

\* _emit_event_mdt
EmitEventMdt(b, c, tm, n) ==
    LET dp == EnsureDiagnosisAndPlan(b, c, tm)
    IN Done(dp.b, dp.ctx,
            Event(n, MdtEventType, tm,
                  << EvAttr("Care Team", "OncologySurgeryRadiology") >>,
                  BaseRels(dp.ctx) \o
                  << Rel(dp.ctx.diagnosis_id, "diagnosis"),
                     Rel(dp.ctx.plan_id, "plan") >>))

\* mutant: the cycle counter is not advanced
EmitEventMedicationCycleKept(b, c, tm, n) ==
    LET dp == EnsureDiagnosisAndPlan(b, c, tm)
        m == CreateMedication(dp.b, dp.ctx, tm, dp.ctx.plan_id)
        c1 == [dp.ctx EXCEPT !.medication_ids = Append(@, m.oid)]
        a == AppendAttr(m.b.objects, c1.plan_id, "status", iso(tm), "Proceed")
    IN IF ~a.ok THEN Raised(m.b, c1)
       ELSE Done([m.b EXCEPT !.objects = a.objects], c1,
                 Event(n, "MedicationTreatment", tm,
                       << EvAttr("CycleNumber", c1.med_cycles) >>,
                       BaseRels(c1) \o
                       << Rel(c1.plan_id, "plan"), Rel(m.oid, "drug_admin") >>))

\* _emit_event_medication
EmitEventMedication(b, c, tm, n) ==
    LET dp == EnsureDiagnosisAndPlan(b, c, tm)
        m == CreateMedication(dp.b, dp.ctx, tm, dp.ctx.plan_id)
        c1 == [dp.ctx EXCEPT !.medication_ids = Append(@, m.oid),
                             !.med_cycles = @ + 1]
        a == AppendAttr(m.b.objects, c1.plan_id, "status", iso(tm), "Proceed")
    IN IF ~a.ok THEN Raised(m.b, c1)
       ELSE Done([m.b EXCEPT !.objects = a.objects], c1,
                 Event(n, "MedicationTreatment", tm,
                       << EvAttr("CycleNumber", c1.med_cycles) >>,
                       BaseRels(c1) \o
                       << Rel(c1.plan_id, "plan"), Rel(m.oid, "drug_admin") >>))

\* mutant: the Payment event starts with the relationships of the others
EmitEventPaymentAsEncounter(b, c, tm, n) ==
    LET amount == RandInt(100000, 1000000, b.rng)
        r1 == NextRand(b.rng)
        method == Choice(<<"card", "cash", "transfer">>, r1)
        b1 == [b EXCEPT !.rng = NextRand(r1)]
        a == AppendObjAttrs(b.objects,
                 << Req(c.visit_id, "billing_amount", iso(tm), amount),
                    Req(c.visit_id, "billing_status", iso(tm), "paid"),
                    Req(c.visit_id, "payment_method", iso(tm), method),
                    Req(c.visit_id, "billing_time", iso(tm), iso(tm)) >>)
    IN IF ~a.ok THEN Raised([b1 EXCEPT !.objects = a.objects], c)
       ELSE Done([b1 EXCEPT !.objects = a.objects], c,
                 Event(n, "Payment", tm,
                       << EvAttr("PaymentMethod", method),
                          EvAttr("PaymentAmount", amount) >>,
                       BaseRels(c)))

\* _emit_event_payment
EmitEventPayment(b, c, tm, n) ==
    LET amount == RandInt(100000, 1000000, b.rng)
        r1 == NextRand(b.rng)
        method == Choice(<<"card", "cash", "transfer">>, r1)
        b1 == [b EXCEPT !.rng = NextRand(r1)]
        a == AppendObjAttrs(b.objects,
                 << Req(c.visit_id, "billing_amount", iso(tm), amount),
                    Req(c.visit_id, "billing_status", iso(tm), "paid"),
                    Req(c.visit_id, "payment_method", iso(tm), method),
                    Req(c.visit_id, "billing_time", iso(tm), iso(tm)) >>)
    IN IF ~a.ok THEN Raised([b1 EXCEPT !.objects = a.objects], c)
       ELSE Done([b1 EXCEPT !.objects = a.objects], c,
                 Event(n, "Payment", tm,
                       << EvAttr("PaymentMethod", method),
                          EvAttr("PaymentAmount", amount) >>,
                       << Rel(c.patient_id, "subject"),
                          Rel(c.visit_id, "billing_encounter") >>))

\* mutant: discharge records the end time and leaves the status as it is
EmitEventDischargeStatusKept(b, c, tm, n) ==
    LET a == AppendObjAttrs(b.objects,
                 << Req(c.visit_id, "end_time", iso(tm), iso(tm)) >>)
    IN IF ~a.ok THEN Raised([b EXCEPT !.objects = a.objects], c)
       ELSE Done([b EXCEPT !.objects = a.objects], c,
                 Event(n, "Discharge", tm, <<>>, BaseRels(c)))

\* _emit_event_discharge
EmitEventDischarge(b, c, tm, n) ==
    LET a == AppendObjAttrs(b.objects,
                 << Req(c.visit_id, "status", iso(tm), "closed"),
                    Req(c.visit_id, "end_time", iso(tm), iso(tm)) >>)
    IN IF ~a.ok THEN Raised([b EXCEPT !.objects = a.objects], c)
       ELSE Done([b EXCEPT !.objects = a.objects], c,
                 Event(n, "Discharge", tm, <<>>, BaseRels(c)))

(* ------------------------------ relationship emitter ------------------ *)
\* mutant: source and target change places
O2ORelSwapped(n, rtype, tm, src, tgt) ==
    [ id |-> NewRelId(n), type |-> rtype, time |-> iso(tm),
      sourceObject |-> tgt, targetObject |-> src, attributes |-> <<>> ]

O2ORel(n, rtype, tm, src, tgt) ==
    [ id |-> NewRelId(n), type |-> rtype, time |-> iso(tm),
      sourceObject |-> src, targetObject |-> tgt, attributes |-> <<>> ]

\* mutant: one TreatmentPlan-Dose record for the plan, not one per Dose
EmitO2ORecordsFirstDoseOnly(c, n) ==
    << O2ORel(n, "Encounter-Patient", c.start_time, c.visit_id, c.patient_id) >>
    \o
    ( IF c.plan_id # None /\ c.medication_ids # <<>>
      THEN << O2ORel(n + 1, "TreatmentPlan-Dose", c.start_time, c.plan_id,
                     c.medication_ids[1]) >>
      ELSE <<>> )

\* _emit_o2o: the records it appends, numbered from n
EmitO2ORecords(c, n) ==
    << O2ORel(n, "Encounter-Patient", c.start_time, c.visit_id, c.patient_id) >>
    \o
    ( IF c.plan_id # None /\ c.medication_ids # <<>>
      THEN [ i \in 1..Len(c.medication_ids) |->
               O2ORel(n + i, "TreatmentPlan-Dose", c.start_time, c.plan_id,
                      c.medication_ids[i]) ]
      ELSE <<>> )


(* ------------------------------ state --------------------------------- *)
\* The argument of add_traces is read as the loops read it: `idx` traces of
\* it have been taken so far, and `activities` are the labels taken so far
\* from the current trace.  What the argument holds further on is the
\* caller's choice, made when the loop gets there.
VARIABLES
    rng_seed,               \* self.rng_seed
    events,                 \* self.events
    objects,                \* self.objects
    object_relationships,   \* self.object_relationships
    event_seq,              \* self._event_seq: the next value it yields
    obj_seq_by_type,        \* self._obj_seq_by_type: type name -> next value
    o2o_seq,                \* self._o2o_seq: the next value it yields
    rng,                    \* state of the random module's generator
    np_rng,                 \* state of numpy.random's generator
    pc,                     \* "new": constructed, add_traces not called yet;
                            \* "replay": in the loop of _add_single_trace;
                            \* "between": _add_single_trace has returned to
                            \* the loop of add_traces; "raised": add_traces
                            \* has ended with an exception
    error,                  \* that exception, "none" if there is none
    idx,                    \* add_traces: enumerate index of the current trace
    activities,             \* _add_single_trace: labels taken so far
    t,                      \* _add_single_trace: the cursor time
    step,                   \* _add_single_trace: the sampled step
    ctx,                    \* _add_single_trace: the trace context
    \* history variables, read by the properties only
    calls,                  \* add_traces calls made so far
    pre,                    \* sizes of the collections when the call began
    hist,                   \* one record per trace started, in order
    evOwner,                \* evOwner[i]: index in hist of the trace that
                            \* appended events[i]
    objOwner,               \* the same for objects
    relOwner,               \* the same for object_relationships
    last_call               \* the last direct call of _get_obj_attr or
                            \* _append_attr: its arguments, what it returned,
                            \* and how many such calls there have been

vars == << rng_seed, events, objects, object_relationships, event_seq, obj_seq_by_type,
           o2o_seq, rng, np_rng, pc, error, idx, activities, t, step, ctx,
           calls, pre, hist, evOwner, objOwner, relOwner, last_call >>

NoCtx ==
    [ trace_index |-> 0, start_time |-> 0, patient_id |-> None,
      visit_id |-> None, diagnosis_id |-> None, plan_id |-> None,
      medication_ids |-> <<>>, test_ids |-> <<>>, med_cycles |-> 0 ]

NoCall ==
    [ op |-> "none", obj_id |-> None, name |-> "", time |-> 0, value |-> None,
      ret |-> None, n |-> 0 ]

\* random.seed(seed), np.random.seed(seed): the state a seed puts a generator in
SeedState(seed) == seed % RngModulus

\* mutant: the generators are not seeded, and are in whatever state the
\* process left them in
PostInitUnseeded ==
    /\ rng \in 0..(RngModulus - 1)
    /\ np_rng \in 0..(RngModulus - 1)

\* __post_init__: random.seed(self.rng_seed); np.random.seed(self.rng_seed)
PostInit ==
    /\ rng = SeedState(rng_seed)
    /\ np_rng = SeedState(rng_seed)

\* the builder right after construction (dataclass defaults, __post_init__),
\* constructed with one of the given seeds
Construct(seeds) ==
    /\ rng_seed \in seeds
    /\ events = <<>>
    /\ objects = <<>>
    /\ object_relationships = <<>>
    /\ event_seq = 1
    /\ obj_seq_by_type = << >>
    /\ o2o_seq = 1
    /\ PostInit
    /\ pc = "new"
    /\ error = "none"
    /\ idx = 0
    /\ activities = <<>>
    /\ t = 0
    /\ step = 0
    /\ ctx = NoCtx
    /\ calls = 0
    /\ pre = [events |-> 0, objects |-> 0, object_relationships |-> 0]
    /\ hist = <<>>
    /\ evOwner = <<>>
    /\ objOwner = <<>>
    /\ relOwner = <<>>
    /\ last_call = NoCall

Init == Construct(Seeds)

(* ------------------------------ actions ------------------------------- *)
B == [objects |-> objects, seq |-> obj_seq_by_type, rng |-> rng]

\* the trace being replayed, as an index in hist
cur == Len(hist)

\* loop passes made so far: traces begun, and labels taken (the label that
\* raised included)
RECURSIVE Passes(_)
Passes(h) ==
    IF h = <<>> THEN 0 ELSE 1 + Len(h[1].activities) + Passes(Tail(h))

Copies(k, v) == [i \in 1..k |-> v]

\* _add_single_trace(trace_index, ...) up to its loop: start time, step,
\* trace objects
BeginTrace(trace_index) ==
    LET start == TraceStart(trace_index)
        stp == StepOf(Normal(np_rng))
        init == InitTraceObjects(B, trace_index, start)
    IN /\ idx' = trace_index
       /\ t' = start
       /\ step' = stp
       /\ np_rng' = NextRand(np_rng)
       /\ ctx' = init.ctx
       /\ objects' = init.b.objects
       /\ obj_seq_by_type' = init.b.seq
       /\ rng' = init.b.rng
       /\ hist' = Append(hist, [ call |-> calls', index |-> trace_index,
                                 activities |-> <<>>,
                                 start |-> start, step |-> stp,
                                 ctx |-> init.ctx, status |-> "open",
                                 o2o_runs |-> 0 ])
       /\ objOwner' = objOwner \o
                      Copies(Len(init.b.objects) - Len(objects), cur + 1)
       /\ activities' = <<>>
       /\ pc' = "replay"
       /\ UNCHANGED << rng_seed, events, object_relationships, event_seq,
                       o2o_seq, error, evOwner, relOwner, last_call >>

\* add_traces is called (the first time, or again after it has returned) and
\* takes the first trace of its argument.  The argument holds at least one
\* trace: with none the loop runs no pass and the builder is left as it is.
AddTraces ==
    /\ pc \in { "new", "between" }
    /\ Passes(hist) < MaxPasses
    /\ calls' = calls + 1
    /\ pre' = [ events |-> Len(events), objects |-> Len(objects),
                object_relationships |-> Len(object_relationships) ]
    /\ BeginTrace(1)

\* mutant: the next trace is begun while the current one is still replayed
AddSingleTraceEarly ==
    /\ pc = "replay"
    /\ Passes(hist) < MaxPasses
    /\ UNCHANGED << calls, pre >>
    /\ BeginTrace(idx + 1)

\* the loop of add_traces takes a further trace of the argument
AddSingleTrace ==
    /\ pc = "between"
    /\ Passes(hist) < MaxPasses
    /\ UNCHANGED << calls, pre >>
    /\ BeginTrace(idx + 1)

\* one pass of the loop of _add_single_trace: the next label of the trace is
\* `act`, whose handler gives r
Handle(act, r) ==
    /\ pc = "replay"
    /\ activities' = Append(activities, act)
    /\ objects' = r.b.objects
    /\ obj_seq_by_type' = r.b.seq
    /\ rng' = r.b.rng
    /\ ctx' = r.ctx
    /\ objOwner' = objOwner \o Copies(Len(r.b.objects) - Len(objects), cur)
    /\ IF r.ok
       THEN /\ events' = events \o r.emitted
            /\ event_seq' = event_seq + Len(r.emitted)
            /\ evOwner' = evOwner \o Copies(Len(r.emitted), cur)
            /\ t' = t + step
            /\ hist' = [hist EXCEPT ![cur].ctx = r.ctx,
                                    ![cur].activities = Append(@, act)]
            /\ UNCHANGED << pc, error >>
       ELSE /\ pc' = "raised"
            /\ error' = "KeyError"
            /\ hist' = [hist EXCEPT ![cur].ctx = r.ctx,
                                    ![cur].activities = Append(@, act),
                                    ![cur].status = "failed"]
            /\ UNCHANGED << events, event_seq, evOwner, t >>
    /\ UNCHANGED << rng_seed, object_relationships, o2o_seq, np_rng, idx, step,
                    calls, pre, relOwner, last_call >>

\* a pass of the loop, within the length of a run
Dispatch(act, r) ==
    /\ pc = "replay"
    /\ Passes(hist) < MaxPasses
    /\ Handle(act, r)

Registration ==
    Dispatch("OutpatientRegistration", EmitEventRegistration(B, ctx, t, event_seq))

InitialConsult ==
    Dispatch("InitialVisit", EmitEventInitialConsult(B, ctx, t, event_seq))

Imaging ==
    Dispatch("ImagingTest", EmitEventImaging(B, ctx, t, event_seq))

Lab ==
    Dispatch("LabTest", EmitEventLab(B, ctx, t, event_seq))

Followup ==
    Dispatch("FollowUpVisit", EmitEventFollowup(B, ctx, t, event_seq))

Mdt ==
    Dispatch("JointConsult", EmitEventMdt(B, ctx, t, event_seq))

Medication ==
    Dispatch("MedicationTreatment", EmitEventMedication(B, ctx, t, event_seq))

Payment ==
    Dispatch("Payment", EmitEventPayment(B, ctx, t, event_seq))

Discharge ==
    Dispatch("Discharge", EmitEventDischarge(B, ctx, t, event_seq))

\* mutant: a label the chain does not dispatch is passed over
UnknownActivitySkipped ==
    /\ pc = "replay"
    /\ Passes(hist) < MaxPasses
    /\ \E act \in Labels \ Vocabulary :
          /\ activities' = Append(activities, act)
          /\ hist' = [hist EXCEPT ![cur].activities = Append(@, act)]
    /\ t' = t + step
    /\ UNCHANGED << rng_seed, events, objects, object_relationships, event_seq,
                    obj_seq_by_type, o2o_seq, rng, np_rng, pc, error, idx,
                    step, ctx, calls, pre, evOwner, objOwner, relOwner,
                    last_call >>

\* the else branch: the next label is none the chain dispatches;
\* raise ValueError, which ends add_traces
UnknownActivity ==
    /\ pc = "replay"
    /\ Passes(hist) < MaxPasses
    /\ \E act \in Labels \ Vocabulary :
          /\ activities' = Append(activities, act)
          /\ hist' = [hist EXCEPT ![cur].status = "failed",
                                  ![cur].activities = Append(@, act)]
    /\ pc' = "raised"
    /\ error' = "ValueError"
    /\ UNCHANGED << rng_seed, events, objects, object_relationships, event_seq,
                    obj_seq_by_type, o2o_seq, rng, np_rng, idx, t, step, ctx,
                    calls, pre, evOwner, objOwner, relOwner, last_call >>

\* the trace holds no further label: self._emit_o2o(ctx)
EmitO2O ==
    /\ pc = "replay"
    /\ LET new == EmitO2ORecords(ctx, o2o_seq)
       IN /\ object_relationships' = object_relationships \o new
          /\ o2o_seq' = o2o_seq + Len(new)
          /\ relOwner' = relOwner \o Copies(Len(new), cur)
    /\ hist' = [hist EXCEPT ![cur].status = "closed", ![cur].o2o_runs = @ + 1]
    /\ pc' = "between"
    /\ UNCHANGED << rng_seed, events, objects, event_seq, obj_seq_by_type, rng,
                    np_rng, error, idx, activities, t, step, ctx, calls, pre, evOwner,
                    objOwner, last_call >>

Next ==
    \/ AddTraces
    \/ AddSingleTrace
    \/ Registration
    \/ InitialConsult
    \/ Imaging
    \/ Lab
    \/ Followup
    \/ Mdt
    \/ Medication
    \/ Payment
    \/ Discharge
    \/ UnknownActivity
    \/ EmitO2O

Spec == Init /\ [][Next]_vars


(* ------------------------------ a full run ---------------------------- *)
\* A run from construction on, as a function of the seed and of the traces
\* handed to add_traces: the builder is the record of its fields
\* [events, objects, object_relationships, event_seq, seq, o2o_seq, rng,
\*  np_rng], raised is TRUE once an exception has ended the run.

\* OCELBuilder(rng_seed=seed)
NewBuilder(seed) ==
    [ events |-> <<>>, objects |-> <<>>, object_relationships |-> <<>>,
      event_seq |-> 1, seq |-> << >>, o2o_seq |-> 1,
      rng |-> SeedState(seed), np_rng |-> SeedState(seed), raised |-> FALSE ]

\* the if / elif chain of _add_single_trace, for a label of the vocabulary
HandlerOf(act, b, c, tm, n) ==
    CASE act = "OutpatientRegistration" -> EmitEventRegistration(b, c, tm, n)
      [] act = "InitialVisit" -> EmitEventInitialConsult(b, c, tm, n)
      [] act = "ImagingTest" -> EmitEventImaging(b, c, tm, n)
      [] act = "LabTest" -> EmitEventLab(b, c, tm, n)
      [] act = "FollowUpVisit" -> EmitEventFollowup(b, c, tm, n)
      [] act = "JointConsult" -> EmitEventMdt(b, c, tm, n)
      [] act = "MedicationTreatment" -> EmitEventMedication(b, c, tm, n)
      [] act = "Payment" -> EmitEventPayment(b, c, tm, n)
      [] act = "Discharge" -> EmitEventDischarge(b, c, tm, n)

\* the loop of _add_single_trace over the labels acts, from cursor time tm;
\* returns [bld, ctx, t], t the cursor time it ends with
RECURSIVE ReplayLabels(_, _, _, _, _)
ReplayLabels(bld, c, tm, stp, acts) ==
    IF acts = <<>> THEN [bld |-> bld, ctx |-> c, t |-> tm]
    ELSE IF acts[1] \notin Vocabulary
    THEN [bld |-> [bld EXCEPT !.raised = TRUE], ctx |-> c, t |-> tm]
    ELSE LET r == HandlerOf(acts[1],
                            [objects |-> bld.objects, seq |-> bld.seq,
                             rng |-> bld.rng],
                            c, tm, bld.event_seq)
             b1 == [bld EXCEPT !.objects = r.b.objects, !.seq = r.b.seq,
                               !.rng = r.b.rng]
         IN IF r.ok
            THEN ReplayLabels([b1 EXCEPT !.events = @ \o r.emitted,
                                         !.event_seq = @ + Len(r.emitted)],
                              r.ctx, tm + stp, stp, Tail(acts))
            ELSE [bld |-> [b1 EXCEPT !.raised = TRUE], ctx |-> r.ctx, t |-> tm]

\* _add_single_trace(trace_index, acts); with ended FALSE it is followed
\* only as far as the last label of acts, short of _emit_o2o.  Returns the
\* builder and the locals ctx, t, step as the call leaves them.
SingleTraceRun(bld, trace_index, acts, ended) ==
    LET start == TraceStart(trace_index)
        stp == StepOf(Normal(bld.np_rng))
        init == InitTraceObjects([objects |-> bld.objects, seq |-> bld.seq,
                                  rng |-> bld.rng], trace_index, start)
        r == ReplayLabels([bld EXCEPT !.objects = init.b.objects,
                                      !.seq = init.b.seq, !.rng = init.b.rng,
                                      !.np_rng = NextRand(@)],
                          init.ctx, start, stp, acts)
        new == EmitO2ORecords(r.ctx, r.bld.o2o_seq)
    IN [ bld |-> IF r.bld.raised \/ ~ended THEN r.bld
                 ELSE [r.bld EXCEPT !.object_relationships = @ \o new,
                                    !.o2o_seq = @ + Len(new)],
         ctx |-> r.ctx, t |-> r.t, step |-> stp ]

RunSingleTrace(bld, trace_index, acts, ended) ==
    SingleTraceRun(bld, trace_index, acts, ended).bld

\* the traces h, one after the other; h[i] is [index, activities, status]
\* as in hist: the trace's place in its add_traces argument, its labels, and
\* whether it was replayed to its end
RECURSIVE RunTraces(_, _)
RunTraces(bld, h) ==
    IF h = <<>> \/ bld.raised THEN bld
    ELSE RunTraces(RunSingleTrace(bld, h[1].index, h[1].activities,
                                  h[1].status = "closed"),
                   Tail(h))

(* ---------------------- the utilities, called directly ---------------- *)
\* A caller that holds the builder may also call _get_obj_attr and
\* _append_attr itself, between its add_traces calls, with an id and a name
\* of its choice: ids the builder has issued or will issue, present in
\* self.objects or not (yet).
UtilIds == { << "enc", 1 >>, << "test", 1, 1 >>, << "dx", 1 >> }

UtilNames == { "status", "result_state" }

UtilValues == { "amended" }

\* add_traces calls come first and leave room for the direct calls
MaxReplayPasses == MaxPasses - 2

UtilCallEnabled ==
    /\ pc \in { "new", "between" }
    /\ Passes(hist) + last_call.n < MaxPasses

\* self._get_obj_attr(obj_id, attr_name)
GetObjAttrCall ==
    /\ UtilCallEnabled
    /\ \E obj_id \in UtilIds, attr_name \in UtilNames :
          last_call' = [ op |-> "get", obj_id |-> obj_id, name |-> attr_name,
                         time |-> 0, value |-> None,
                         ret |-> GetObjAttr(objects, obj_id, attr_name),
                         n |-> last_call.n + 1 ]
    /\ UNCHANGED << rng_seed, events, objects, object_relationships, event_seq,
                    obj_seq_by_type, o2o_seq, rng, np_rng, pc, error, idx,
                    activities, t, step, ctx, calls, pre, hist, evOwner,
                    objOwner, relOwner >>

\* self._append_attr(obj_id, name, time, value); the KeyError is not caught
AppendAttrCall ==
    /\ UtilCallEnabled
    /\ \E obj_id \in UtilIds, name \in UtilNames, value \in UtilValues :
          LET a == AppendAttr(objects, obj_id, name, iso(t), value)
          IN /\ last_call' = [ op |-> "append", obj_id |-> obj_id,
                               name |-> name, time |-> iso(t),
                               value |-> value, ret |-> None,
                               n |-> last_call.n + 1 ]
             /\ objects' = a.objects
             /\ IF a.ok THEN UNCHANGED << pc, error >>
                ELSE pc' = "raised" /\ error' = "KeyError"
    /\ UNCHANGED << rng_seed, events, object_relationships, event_seq,
                    obj_seq_by_type, o2o_seq, rng, np_rng, idx, activities, t, step, ctx, calls,
                    pre, hist, evOwner, objOwner, relOwner >>

\* add_traces calls, as in Next, before the first direct call; a trace that
\* has used up the passes is ended (_emit_o2o), so that add_traces returns
Replay ==
    /\ last_call.n = 0
    /\ \/ Passes(hist) < MaxReplayPasses /\ Next
       \/ Passes(hist) >= MaxReplayPasses /\ EmitO2O

UtilNext ==
    \/ Replay
    \/ GetObjAttrCall
    \/ AppendAttrCall

UtilSpec == Init /\ [][UtilNext]_vars


(* ----------------------- the pathway scenarios ------------------------ *)
\* One add_traces call on a new builder, with one trace of vocabulary
\* labels: the nine-label pathway with labels left out or repeated, in
\* pathway order or in the opposite order.

\* the labels in the order of the if / elif chain of _add_single_trace
FullPathway ==
    << "OutpatientRegistration", "InitialVisit", "ImagingTest", "LabTest",
       "FollowUpVisit", "JointConsult", "MedicationTreatment", "Payment",
       "Discharge" >>

MinimalPathway == << "OutpatientRegistration", "InitialVisit", "Discharge" >>

\* how often a label whose handler creates objects may occur in a scenario
MaxRepeat == 2

\* the labels whose handlers create objects
Creating == { "ImagingTest", "LabTest", "JointConsult", "MedicationTreatment" }

Position(label) == CHOOSE i \in 1..Len(FullPathway) : FullPathway[i] = label

\* how often the labels of a set occur in a trace
CountOf(acts, labels) == Cardinality({ j \in 1..Len(acts) : acts[j] \in labels })

\* the traces of the scenarios, and what they begin with
InScenario(acts) ==
    /\ \A j \in 1..Len(acts) :
          CountOf(acts, { acts[j] })
            <= (IF acts[j] \in Creating THEN MaxRepeat ELSE 1)
    /\ \/ \A j \in 1..(Len(acts) - 1) :
             Position(acts[j]) <= Position(acts[j + 1])
       \/ \A j \in 1..(Len(acts) - 1) :
             Position(acts[j]) >= Position(acts[j + 1])

\* add_traces([trace]) is called on the new builder
ScenarioBegin == pc = "new" /\ AddTraces

\* a pass of the loop of _add_single_trace, on the next label of the trace
ScenarioStep ==
    \E act \in Vocabulary :
        /\ InScenario(Append(activities, act))
        /\ Handle(act, HandlerOf(act, B, ctx, t, event_seq))

ScenarioNext ==
    \/ ScenarioBegin
    \/ ScenarioStep
    \/ EmitO2O

ScenarioSpec == Init /\ [][ScenarioNext]_vars

(* ------------------------------ reading the log ----------------------- *)
\* the indices of a sequence, and those whose owner is trace k
OwnedBy(owner, k) == { i \in 1..Len(owner) : owner[i] = k }

\* the events trace k appended, in the order of self.events
RECURSIVE Pick(_, _, _)
Pick(s, owner, k) ==
    IF s = <<>> THEN <<>>
    ELSE (IF owner[1] = k THEN << s[1] >> ELSE <<>>)
         \o Pick(Tail(s), Tail(owner), k)

EventsOf(k) == Pick(events, evOwner, k)

RelsOf(k) == Pick(object_relationships, relOwner, k)

\* the objects of a type that trace k created, as indices in self.objects
ObjectsOf(k, type) ==
    { i \in OwnedBy(objOwner, k) : objects[i].type = type }

\* the current value of an attribute of one object: its last entry of that name
Current(obj, attr_name) ==
    LET vals == SelectSeq(obj.attributes, LAMBDA a : a.name = attr_name)
    IN IF Len(vals) > 0 THEN vals[Len(vals)].value ELSE None

\* the object ids an event relates to under a qualifier
Related(e, qualifier) ==
    { e.relationships[j].objectId :
        j \in { j \in 1..Len(e.relationships) :
                  e.relationships[j].qualifier = qualifier } }

\* the objects of self.objects an object id names
Named(obj_id) == { i \in 1..Len(objects) : objects[i].id = obj_id }

Occurs(label, acts) == \E j \in 1..Len(acts) : acts[j] = label

\* the traces whose labels so far were all in the vocabulary
Valid(k) == hist[k].status # "failed"

\* the type the handler of a label writes on its event
HandlerType(label) == IF label = "JointConsult" THEN MdtEventType ELSE label

(* ------------------------------ C1 ------------------------------------ *)
\* C1: for every trace made only of vocabulary labels, the events the trace
\* appended are one per label replayed, in label order: the k-th of them is
\* the event the handler of the k-th label writes.
C1_OneEventPerLabel ==
    \A k \in 1..Len(hist) :
        Valid(k) =>
            LET evs == EventsOf(k)
                acts == hist[k].activities
            IN /\ Len(evs) = Len(acts)
               /\ \A j \in 1..Len(acts) : evs[j].type = HandlerType(acts[j])

\* a trace of three labels, not all the same, replayed to its end
C1_Witness ==
    \E k \in 1..Len(hist) :
        /\ hist[k].status = "closed"
        /\ Len(hist[k].activities) >= 3
        /\ hist[k].activities[1] # hist[k].activities[2]


(* ------------------------------ C2 ------------------------------------ *)
\* C2: every trace begun, whatever its labels, has created exactly one
\* Patient and exactly one Encounter, at every point of its replay and after.
C2_OnePatientOneEncounter ==
    \A k \in 1..Len(hist) :
        /\ Cardinality(ObjectsOf(k, "Patient")) = 1
        /\ Cardinality(ObjectsOf(k, "Encounter")) = 1

\* an empty trace and a trace that repeats a label, both replayed to the end
C2_Witness ==
    /\ \E k \in 1..Len(hist) :
          hist[k].status = "closed" /\ hist[k].activities = <<>>
    /\ \E k \in 1..Len(hist) :
          /\ hist[k].status = "closed"
          /\ Len(hist[k].activities) >= 2
          /\ hist[k].activities[1] = hist[k].activities[2]

(* ------------------------------ C3 ------------------------------------ *)
\* C3: right after the handler of a FollowUpVisit, every Test the trace has
\* created has current result_state "Reviewed", and the objects the event's
\* "reviewed_test" relationships name are exactly those Tests: each of them,
\* and no Test of another trace.
C3_FollowupReviewsOwnTests ==
    ( /\ pc = "replay"
      /\ activities # <<>>
      /\ activities[Len(activities)] = "FollowUpVisit" )
    => LET e == events[Len(events)]
           tests == ObjectsOf(cur, "Test")
       IN /\ \A i \in tests :
                Current(objects[i], "result_state") = "Reviewed"
          /\ UNION { Named(id) : id \in Related(e, "reviewed_test") } = tests

(* ------------------------------ C4 ------------------------------------ *)
\* C4: a trace has created one Diagnosis and one TreatmentPlan if its labels
\* so far hold a JointConsult or a MedicationTreatment, and none otherwise;
\* every "diagnosis" / "plan" relationship of its events names that one
\* Diagnosis / TreatmentPlan and no other object.
C4_OneDiagnosisOnePlan ==
    \A k \in 1..Len(hist) :
        LET acts == hist[k].activities
            n == IF Occurs("JointConsult", acts)
                    \/ Occurs("MedicationTreatment", acts) THEN 1 ELSE 0
            dx == ObjectsOf(k, "Diagnosis")
            plans == ObjectsOf(k, "TreatmentPlan")
        IN /\ Cardinality(dx) = n
           /\ Cardinality(plans) = n
           /\ \A i \in OwnedBy(evOwner, k) :
                 /\ \A id \in Related(events[i], "diagnosis") : Named(id) = dx
                 /\ \A id \in Related(events[i], "plan") : Named(id) = plans

\* a trace with MedicationTreatment before and after a JointConsult
C4_Witness ==
    \E k \in 1..Len(hist) :
        /\ Len(hist[k].activities) >= 3
        /\ hist[k].activities[1] = "MedicationTreatment"
        /\ hist[k].activities[2] = "JointConsult"
        /\ hist[k].activities[3] = "MedicationTreatment"

(* ------------------------------ C5 ------------------------------------ *)
\* C5: the Relationship Emitter has run once for a trace replayed to its end,
\* and not at all for one still in replay; the trace's records are then
\* 1 + D, D the number of its Doses if it has a TreatmentPlan, else 0.
C5_RelationshipCount ==
    \A k \in 1..Len(hist) :
        LET d == IF ObjectsOf(k, "TreatmentPlan") # {}
                 THEN Cardinality(ObjectsOf(k, "Dose")) ELSE 0
        IN /\ hist[k].status = "closed" =>
                 /\ hist[k].o2o_runs = 1
                 /\ Len(RelsOf(k)) = 1 + d
           /\ hist[k].status = "open" =>
                 /\ hist[k].o2o_runs = 0
                 /\ RelsOf(k) = <<>>

\* a trace with two Doses, replayed to its end
C5_Witness ==
    \E k \in 1..Len(hist) :
        /\ hist[k].status = "closed"
        /\ Cardinality(ObjectsOf(k, "Dose")) = 2
        /\ Len(RelsOf(k)) = 3

(* ------------------------------ C6 ------------------------------------ *)
\* C6: in the events of one trace, each event's time is strictly later than
\* the time of the event before it.
C6_TimestampsIncrease ==
    \A k \in 1..Len(hist) :
        LET evs == EventsOf(k)
        IN \A j \in 1..(Len(evs) - 1) : evs[j].time < evs[j + 1].time

\* a trace of three events whose sampled step was below the floor, and a
\* later trace of two events whose step was not
C6_Witness ==
    /\ \E k \in 1..Len(hist) :
          /\ Len(EventsOf(k)) >= 2
          /\ hist[k].step = StepFloorMinutes * MsPerMinute
    /\ \E k \in 1..Len(hist) :
          /\ Len(EventsOf(k)) >= 1
          /\ hist[k].step > StepFloorMinutes * MsPerMinute

(* ------------------------------ C7 ------------------------------------ *)
\* C7: when add_traces has ended with ValueError (a label outside the
\* vocabulary), events, objects and object relationships are what they were
\* when the call began.
C7_FailureAppliesNothing ==
    error = "ValueError" =>
        /\ Len(events) = pre.events
        /\ Len(objects) = pre.objects
        /\ Len(object_relationships) = pre.object_relationships

(* ------------------------------ C8 ------------------------------------ *)
\* C8: the type of every event is a label of the vocabulary, the label that
\* was dispatched to produce it.
C8_EventTypeIsLabel ==
    \A k \in 1..Len(hist) :
        LET evs == EventsOf(k)
        IN \A j \in 1..Len(evs) :
              /\ evs[j].type \in Vocabulary
              /\ evs[j].type = hist[k].activities[j]

(* ------------------------------ C9 ------------------------------------ *)
\* C9: every event has a "subject" relationship, and what a "subject"
\* relationship names is the Patient created for the trace that emitted the
\* event, and no other object.
C9_SubjectIsOwnPatient ==
    \A i \in 1..Len(events) :
        LET subj == Related(events[i], "subject")
        IN /\ subj # {}
           /\ \A id \in subj : Named(id) = ObjectsOf(evOwner[i], "Patient")

\* events of traces of two different add_traces calls
C9_Witness ==
    \E i, j \in 1..Len(events) :
        /\ evOwner[i] # evOwner[j]
        /\ hist[evOwner[i]].call # hist[evOwner[j]].call

(* ------------------------------ C10 ----------------------------------- *)
\* C10: no two objects of self.objects have the same id.
C10_ObjectIdsDistinct ==
    \A i, j \in 1..Len(objects) :
        i # j => objects[i].id # objects[j].id

(* ------------------------------ C11 ----------------------------------- *)
\* the object types whose ids come from _new_object_id
CountedTypes == { "Patient", "Encounter", "Diagnosis", "TreatmentPlan" }

\* the objects of a type, as indices in self.objects
OfType(type) == { i \in 1..Len(objects) : objects[i].type = type }

\* C11: each allocator counter issues 1, 2, 3, ... over the builder's life:
\* the k-th event carries event number k, the k-th object relationship
\* carries relationship number k, the k-th object of each of the types
\* Patient, Encounter, Diagnosis, TreatmentPlan carries suffix k, and every
\* counter stands one past the number of identifiers it has issued, whatever
\* the other counters have issued and however many traces and add_traces
\* calls there have been.
C11_CountersIssueInOrder ==
    /\ \A i \in 1..Len(events) : events[i].id = NewEventId(i)
    /\ event_seq = Len(events) + 1
    /\ \A i \in 1..Len(object_relationships) :
          object_relationships[i].id = NewRelId(i)
    /\ o2o_seq = Len(object_relationships) + 1
    /\ \A type \in CountedTypes :
          LET mine == OfType(type)
          IN /\ \A i \in mine :
                   objects[i].id =
                     << type_prefix[type], Cardinality({ j \in mine : j <= i }) >>
             /\ IF mine = {} THEN type \notin DOMAIN obj_seq_by_type
                ELSE obj_seq_by_type[type] = Cardinality(mine) + 1

\* a second add_traces call has created a second Diagnosis and a second
\* TreatmentPlan, with events and a relationship record of the first call
\* behind it
C11_Witness ==
    /\ calls = 2
    /\ Cardinality(OfType("Diagnosis")) = 2
    /\ Cardinality(OfType("TreatmentPlan")) = 2
    /\ Len(events) >= 2
    /\ Len(object_relationships) >= 1

(* ------------------------------ C12 ----------------------------------- *)
\* C12: in the attribute history of every object, at every point of a run,
\* each entry's time is no earlier than the time of the entry appended
\* before it (the entries of the initial snapshot included).
C12_HistoryTimesNonDecreasing ==
    \A i \in 1..Len(objects) :
        LET h == objects[i].attributes
        IN \A j \in 1..(Len(h) - 1) : h[j].time <= h[j + 1].time

(* ------------------------------ C13 ----------------------------------- *)
MaxOf(S) == CHOOSE i \in S : \A j \in S : j <= i

\* the positions of the entries of a name in an attribute history
EntriesOf(h, attr_name) == { j \in 1..Len(h) : h[j].name = attr_name }

\* a direct _get_obj_attr call is being made in this step
GetStep == last_call'.n # last_call.n /\ last_call'.op = "get"

\* what the last direct call was about: the object it addressed (the most
\* recently created one of that id) and that object's entries of the name
Addressed == objects[MaxOf(Named(last_call.obj_id))].attributes

\* C13: _get_obj_attr on an id that is present returns the value of the
\* last-appended entry of the given name in that object's history (never of
\* an earlier entry of the name), returns None when the history has no entry
\* of the name, and leaves self.objects as it was.
C13_GetReturnsLastAppended ==
    /\ [] ( (last_call.op = "get" /\ Named(last_call.obj_id) # {}) =>
              LET hits == EntriesOf(Addressed, last_call.name)
              IN IF hits = {} THEN last_call.ret = None
                 ELSE last_call.ret = Addressed[MaxOf(hits)].value )
    /\ [][ GetStep => objects' = objects ]_vars

\* a lookup of a name the object has three entries of, the last of them
\* appended by a direct _append_attr call
C13_Witness ==
    /\ last_call.op = "get"
    /\ Named(last_call.obj_id) # {}
    /\ LET hits == EntriesOf(Addressed, last_call.name)
       IN /\ Cardinality(hits) >= 3
          /\ Addressed[MaxOf(hits)].value \in UtilValues

(* ------------------------------ C14 ----------------------------------- *)
\* a direct _append_attr call is being made in this step
AppendStep == last_call'.n # last_call.n /\ last_call'.op = "append"

\* objects' is objects with one entry more at the end of the history of
\* object i, and nothing else changed
OneEntryAppended(i, entry) ==
    /\ Len(objects') = Len(objects)
    /\ objects'[i].attributes = Append(objects[i].attributes, entry)
    /\ objects'[i].id = objects[i].id
    /\ objects'[i].type = objects[i].type
    /\ \A j \in 1..Len(objects) : j # i => objects'[j] = objects[j]

\* C14: _append_attr with an id that is present appends exactly one
\* (name, time, value) entry at the end of the history of an object of that
\* id and changes nothing else; with an id that is not present it raises
\* KeyError and leaves every object's history, the events and the object
\* relationships as they were.
C14_AppendOneEntryOrKeyError ==
    [][ AppendStep =>
          /\ events' = events
          /\ object_relationships' = object_relationships
          /\ IF Named(last_call'.obj_id) # {}
             THEN /\ error' = error
                  /\ \E i \in Named(last_call'.obj_id) :
                        OneEntryAppended(i, Attr(last_call'.name,
                                                 last_call'.time,
                                                 last_call'.value))
             ELSE /\ error' = "KeyError"
                  /\ objects' = objects ]_vars

\* a direct _append_attr call on an id that is not present has raised, after
\* one on an id that is present had appended its entry
C14_Witness ==
    /\ last_call.op = "append"
    /\ error = "KeyError"
    /\ \E i \in 1..Len(objects) :
          LET h == objects[i].attributes
          IN \E j \in EntriesOf(h, "status") \cup EntriesOf(h, "result_state") :
                h[j].value \in UtilValues

(* ------------------------------ C15 ----------------------------------- *)
\* C15: a _get_obj_attr call with an id that is not present in self.objects
\* ends with an exception, as a _append_attr call with such an id does; it
\* does not return a value.
C15_DanglingLookupIsFatal ==
    (last_call.op = "get" /\ Named(last_call.obj_id) = {}) => error # "none"

(* ------------------------------ C16 ----------------------------------- *)
\* seeds of the runs compared
DetSeeds == { 42, 43 }

DetInit == Construct(DetSeeds)

\* runs on builders of either seed, one pass shorter than those of Spec
MaxDetPasses == MaxPasses - 1

DetNext ==
    \/ Passes(hist) < MaxDetPasses /\ Next
    \/ Passes(hist) >= MaxDetPasses /\ EmitO2O

DetSpec == DetInit /\ [][DetNext]_vars

\* the document of to_json: the three collections a run fills
Document(ev, ob, rel) == [events |-> ev, objects |-> ob, objectRelationships |-> rel]

\* C16: a second full run, from a builder newly constructed with the same
\* seed and over the same traces, arrives at the same document as this run:
\* the same events, objects and object relationships, every identifier,
\* timestamp and sampled value included.
C16_SameSeedSameDocument ==
    LET again == RunTraces(NewBuilder(rng_seed), hist)
    IN Document(events, objects, object_relationships)
       = Document(again.events, again.objects, again.object_relationships)

\* two traces replayed to their end, the second one with sampled values in
\* its events and objects
C16_Witness ==
    /\ Len(hist) = 2
    /\ pc = "between"
    /\ hist[2].activities # <<>>
    /\ hist[2].activities[1] \in { "ImagingTest", "MedicationTreatment", "Payment" }

(* ------------------------------ C17 ----------------------------------- *)
\* C17: after a run over one trace of vocabulary labels the objects are
\* exactly one Patient, one Encounter, one Test per ImagingTest / LabTest
\* label, one Dose per MedicationTreatment label, and one Diagnosis and one
\* TreatmentPlan if the trace holds a JointConsult or a MedicationTreatment,
\* none otherwise.  The trace [OutpatientRegistration, InitialVisit,
\* Discharge] gives 3 events, 2 objects and 1 object relationship, and its
\* Encounter's current status is "closed"; the full nine-label trace gives
\* 1 Diagnosis, 1 TreatmentPlan, 2 Tests, 1 Dose, 2 object relationships.
C17_ObjectsOfOneTrace ==
    pc = "between" =>
        LET acts == hist[1].activities
            tests == CountOf(acts, { "ImagingTest", "LabTest" })
            doses == CountOf(acts, { "MedicationTreatment" })
            dxs == IF CountOf(acts, { "JointConsult", "MedicationTreatment" }) > 0
                   THEN 1 ELSE 0
            n(type) == Cardinality(OfType(type))
        IN /\ n("Patient") = 1
           /\ n("Encounter") = 1
           /\ n("Test") = tests
           /\ n("Dose") = doses
           /\ n("Diagnosis") = dxs
           /\ n("TreatmentPlan") = dxs
           /\ Len(objects) = 2 + tests + doses + 2 * dxs
           /\ acts = MinimalPathway =>
                 /\ Len(events) = 3
                 /\ Len(objects) = 2
                 /\ Len(object_relationships) = 1
                 /\ \A i \in OfType("Encounter") :
                       Current(objects[i], "status") = "closed"
           /\ acts = FullPathway =>
                 /\ n("Diagnosis") = 1 /\ n("TreatmentPlan") = 1
                 /\ n("Test") = 2 /\ n("Dose") = 1
                 /\ Len(object_relationships) = 2

\* the run over the full nine-label trace
C17_Witness == pc = "between" /\ hist[1].activities = FullPathway

(* ------------------------------ C18 ----------------------------------- *)
\* C18: a label outside the vocabulary, met at position j of a trace, stops
\* the replay there: it is the last label taken of the last trace begun (no
\* handler runs for a later position, no later trace is begun, so no Patient
\* or Encounter is created for one), the trace has one event per label
\* before it and none for it, _emit_o2o has not run for the trace, and from
\* then on the builder does not change.
C18_UnknownLabelStopsReplay ==
    /\ [] ( \A k \in 1..Len(hist) :
              \A j \in 1..Len(hist[k].activities) :
                 hist[k].activities[j] \notin Vocabulary =>
                    /\ pc = "raised"
                    /\ error = "ValueError"
                    /\ k = Len(hist)
                    /\ j = Len(hist[k].activities)
                    /\ Len(EventsOf(k)) = j - 1
                    /\ hist[k].o2o_runs = 0
                    /\ RelsOf(k) = <<>>
                    /\ Len(objects) = Len(objOwner)
                    /\ \A i \in 1..Len(objOwner) : objOwner[i] <= k )
    /\ [][ pc # "raised" ]_vars

\* the second label of the second trace of a call was outside the vocabulary
C18_Witness ==
    /\ error = "ValueError"
    /\ Len(hist) >= 2
    /\ hist[Len(hist)].index = 2
    /\ Len(activities) = 2

(* ------------------------------ C19 ----------------------------------- *)
\* the members of a set of indices, in increasing order
RECURSIVE InOrder(_)
InOrder(S) ==
    IF S = {} THEN <<>>
    ELSE LET m == MaxOf(S) IN Append(InOrder(S \ { m }), m)

\* C19: the object relationship records of a trace replayed to its end all
\* carry the trace's start time.  The first is the Encounter-Patient record,
\* from the trace's Encounter to its Patient, and the only one of its type;
\* if the trace has a TreatmentPlan, the others are one TreatmentPlan-Dose
\* record per Dose of the trace, in the order the Doses were created, each
\* from the trace's TreatmentPlan to that Dose; without a TreatmentPlan
\* there are no others.
C19_RelationshipRecords ==
    \A k \in 1..Len(hist) :
        hist[k].status = "closed" =>
            LET rels == RelsOf(k)
                doses == InOrder(ObjectsOf(k, "Dose"))
                plans == ObjectsOf(k, "TreatmentPlan")
            IN /\ \A i \in 1..Len(rels) : rels[i].time = iso(hist[k].start)
               /\ Len(rels) >= 1
               /\ rels[1].type = "Encounter-Patient"
               /\ \A i \in ObjectsOf(k, "Encounter") :
                     rels[1].sourceObject = objects[i].id
               /\ \A i \in ObjectsOf(k, "Patient") :
                     rels[1].targetObject = objects[i].id
               /\ IF plans = {} THEN Len(rels) = 1
                  ELSE /\ Len(rels) = 1 + Len(doses)
                       /\ \A i \in 1..Len(doses) :
                             /\ rels[1 + i].type = "TreatmentPlan-Dose"
                             /\ \A p \in plans :
                                   rels[1 + i].sourceObject = objects[p].id
                             /\ rels[1 + i].targetObject = objects[doses[i]].id

\* a trace replayed to its end whose two Doses were created later than the
\* trace's start time
C19_Witness ==
    \E k \in 1..Len(hist) :
        /\ hist[k].status = "closed"
        /\ Len(hist[k].activities) = 3
        /\ hist[k].activities[1] = "JointConsult"
        /\ Len(InOrder(ObjectsOf(k, "Dose"))) = 2

(* ------------------------------ C20 ----------------------------------- *)
\* C20: every event has exactly one relationship to the Encounter of its
\* trace.  On a Payment event its qualifier is "billing_encounter", and the
\* event has no "encounter" relationship; on every other event its qualifier
\* is "encounter", and the event has no "billing_encounter" relationship.
C20_EncounterQualifier ==
    \A i \in 1..Len(events) :
        LET e == events[i]
            encs == { objects[o].id : o \in ObjectsOf(evOwner[i], "Encounter") }
            toEnc == { j \in 1..Len(e.relationships) :
                         e.relationships[j].objectId \in encs }
        IN /\ Cardinality(toEnc) = 1
           /\ IF e.type = "Payment"
              THEN /\ Related(e, "billing_encounter") = encs
                   /\ Related(e, "encounter") = {}
              ELSE /\ Related(e, "encounter") = encs
                   /\ Related(e, "billing_encounter") = {}

\* a trace with a Payment event after an event of another type, and another
\* trace before it
C20_Witness ==
    \E i, j \in 1..Len(events) :
        /\ i < j
        /\ evOwner[i] = evOwner[j]
        /\ evOwner[i] > 1
        /\ events[i].type # "Payment"
        /\ events[j].type = "Payment"

(* ------------------------------ C21 ----------------------------------- *)
NonDecreasing(s) == \A i \in 1..(Len(s) - 1) : s[i] <= s[i + 1]

\* C21: traces are replayed one after the other.  In self.events, in
\* self.objects and in self.object_relationships the items of a trace come
\* before those of every later trace; a trace is begun (its Patient and
\* Encounter created) only when _emit_o2o has run for every earlier trace;
\* events and objects are appended only for the last trace begun and only
\* while its relationship records are not yet written; and relationship
\* records are written only for the last trace begun.
C21_TracesOneAfterAnother ==
    /\ [] ( /\ NonDecreasing(evOwner)
            /\ NonDecreasing(objOwner)
            /\ NonDecreasing(relOwner)
            /\ \A k \in 1..(Len(hist) - 1) :
                  hist[k].status = "closed" /\ hist[k].o2o_runs = 1 )
    /\ [][ /\ Len(hist') > Len(hist) =>
                \A k \in 1..Len(hist) : hist[k].status = "closed"
           /\ (Len(events') > Len(events) \/ Len(objects') > Len(objects)) =>
                /\ \A i \in 1..Len(relOwner') : relOwner'[i] # Len(hist')
                /\ \A i \in (Len(events) + 1)..Len(events') :
                      evOwner'[i] = Len(hist')
                /\ \A i \in (Len(objects) + 1)..Len(objects') :
                      objOwner'[i] = Len(hist')
           /\ Len(object_relationships') > Len(object_relationships) =>
                /\ Len(hist') = Len(hist)
                /\ events' = events
                /\ objects' = objects
                /\ \A i \in (Len(relOwner) + 1)..Len(relOwner') :
                      relOwner'[i] = Len(hist) ]_vars

\* two traces, each with events and with its relationship record
C21_Witness ==
    /\ Len(hist) = 2
    /\ pc = "between"
    /\ EventsOf(1) # <<>> /\ EventsOf(2) # <<>>
    /\ RelsOf(1) # <<>> /\ RelsOf(2) # <<>>

(* ------------------------------ C22 ----------------------------------- *)
\* the object ids an event relates to, and the two ends of a relationship record
ObjectIdsOf(e) ==
    { e.relationships[j].objectId : j \in 1..Len(e.relationships) }

EndsOf(rel) == { rel.sourceObject, rel.targetObject }

\* C22: referential integrity.  In every reachable state each objectId of
\* an event's relationships and each sourceObject and targetObject of an
\* object-relationship record is the id of an object of self.objects, and
\* no handler has raised the KeyError of a dangling reference; and in every
\* step the objects an appended event or record relates to are in
\* self.objects at the append.
C22_ReferentialIntegrity ==
    /\ [] ( /\ \A i \in 1..Len(events) :
                  \A id \in ObjectIdsOf(events[i]) : Named(id) # {}
            /\ \A i \in 1..Len(object_relationships) :
                  \A id \in EndsOf(object_relationships[i]) : Named(id) # {}
            /\ error # "KeyError" )
    /\ [][ /\ \A i \in (Len(events) + 1)..Len(events') :
                \A id \in ObjectIdsOf(events'[i]) :
                   \E j \in 1..Len(objects') : objects'[j].id = id
           /\ \A i \in (Len(object_relationships) + 1)
                          ..Len(object_relationships') :
                \A id \in EndsOf(object_relationships'[i]) :
                   \E j \in 1..Len(objects) : objects[j].id = id ]_vars

\* a trace of valid labels whose events relate to a Test, a Dose and a
\* TreatmentPlan, with its relationship records written
C22_Witness ==
    /\ Len(hist) = 1
    /\ hist[1].status = "closed"
    /\ hist[1].activities = << "ImagingTest", "FollowUpVisit", "MedicationTreatment" >>
    /\ \E i \in 1..Len(events) : Related(events[i], "reviewed_test") # {}
    /\ \E i \in 1..Len(events) : Related(events[i], "drug_admin") # {}
    /\ object_relationships # <<>>

(* ------------------------------ C23 ----------------------------------- *)
\* s is kept as the beginning of s2
Prefix(s, s2) ==
    /\ Len(s) <= Len(s2)
    /\ \A i \in 1..Len(s) : s2[i] = s[i]

\* C23: the log is append-only.  In every step of a run, replay of a trace
\* or direct call of _append_attr alike, self.events and
\* self.object_relationships keep what they held as their beginning,
\* self.objects loses no object, and every object keeps its id, its type
\* and its attribute history as the beginning of the new history.
C23_LogIsAppendOnly ==
    [][ /\ Prefix(events, events')
        /\ Prefix(object_relationships, object_relationships')
        /\ Len(objects) <= Len(objects')
        /\ \A i \in 1..Len(objects) :
              /\ objects'[i].id = objects[i].id
              /\ objects'[i].type = objects[i].type
              /\ Prefix(objects[i].attributes, objects'[i].attributes) ]_vars

\* a trace whose handlers appended to objects that had a history (the
\* follow-up on the Test and the Encounter, the discharge on the Encounter),
\* followed by a direct append on the Encounter
C23_Witness ==
    /\ Len(hist) = 1
    /\ hist[1].activities = << "ImagingTest", "FollowUpVisit" >>
    /\ hist[1].status = "closed"
    /\ last_call.op = "append"
    /\ last_call.obj_id = << "enc", 1 >>
    /\ error = "none"
    /\ \E i \in ObjectsOf(1, "Test") :
          Current(objects[i], "result_state") = "Reviewed"

(* ------------------------------ C24 ----------------------------------- *)
\* the times of the entries of an attribute history
TimesOf(obj) == { obj.attributes[j].time : j \in 1..Len(obj.attributes) }

\* C24: the timing model, read on the log.  The first event of a trace of
\* index i, and every attribute its Patient and Encounter are created with,
\* carry base_time + (i-1) hours; the sampled step is at least 10 minutes;
\* and the gap between consecutive events is one and the same for the whole
\* trace and not below 10 minutes, so that the k-th event lies k-1 gaps after
\* the first.
C24_TimingModel ==
    \A k \in 1..Len(hist) :
        LET evs == EventsOf(k)
            start == iso(TraceStart(hist[k].index))
        IN /\ hist[k].step >= StepFloorMinutes * MsPerMinute
           /\ Len(evs) >= 1 => evs[1].time = start
           /\ hist[k].activities = <<>> =>
                 \A i \in ObjectsOf(k, "Patient") \cup ObjectsOf(k, "Encounter") :
                    TimesOf(objects[i]) = { start }
           /\ \A j \in 2..Len(evs) :
                 /\ evs[j].time - evs[j - 1].time = evs[2].time - evs[1].time
                 /\ evs[j].time - evs[j - 1].time
                       >= iso(StepFloorMinutes * MsPerMinute)
                 /\ evs[j].time = start + (j - 1) * (evs[2].time - evs[1].time)

(* ------------------------------ C25 ----------------------------------- *)
\* C25: trace isolation.  In every step of a replay, an object of
\* self.objects that the step changes (an attribute appended to it) was
\* created by the trace being replayed, the last one begun; the objects of
\* every other trace are left as they were, also when a later add_traces
\* call gives a Test or a Dose the id of an object of an earlier call.
C25_TraceIsolation ==
    [][ \A i \in 1..Len(objects) :
           objects'[i] # objects[i] =>
              /\ Len(hist') = Len(hist)
              /\ objOwner[i] = Len(hist) ]_vars

\* two add_traces calls whose traces each created a Test of the same id; the
\* follow-up of the second trace reviewed its own Test and the Test of the
\* first call was left unreviewed
C25_Witness ==
    /\ Len(hist) = 2
    /\ hist[1].call # hist[2].call
    /\ hist[2].activities = << "ImagingTest", "FollowUpVisit" >>
    /\ \E i \in ObjectsOf(1, "Test") : \E j \in ObjectsOf(2, "Test") :
          /\ objects[i].id = objects[j].id
          /\ Current(objects[i], "result_state") = "Unreviewed"
          /\ Current(objects[j], "result_state") = "Reviewed"

(* ------------------------------ C26 ----------------------------------- *)
\* the MedicationTreatment events of trace k, in the order of self.events
MedicationEventsOf(k) ==
    SelectSeq(EventsOf(k), LAMBDA e : e.type = "MedicationTreatment")

\* the Dose objects of trace k, in the order of self.objects
DosesOf(k) ==
    SelectSeq(Pick(objects, objOwner, k), LAMBDA o : o.type = "Dose")

\* C26: medication cycle accounting.  The context's med_cycles is the
\* length of its medication_ids; the j-th MedicationTreatment event of a
\* trace has the one attribute CycleNumber = j and one "drug_admin"
\* relationship, to the j-th Dose the trace created, whose id ends in j;
\* and the current status of the trace's TreatmentPlan is "Proceed" once the
\* trace has a MedicationTreatment event and "Planned" before.
C26_MedicationCycles ==
    /\ ctx.med_cycles = Len(ctx.medication_ids)
    /\ \A k \in 1..Len(hist) :
          LET meds == MedicationEventsOf(k)
              doses == DosesOf(k)
          IN /\ Len(doses) = Len(meds)
             /\ k = Len(hist) /\ pc = "replay" =>
                   /\ ctx.med_cycles = Len(meds)
                   /\ ctx.medication_ids = [ j \in 1..Len(doses) |-> doses[j].id ]
             /\ \A j \in 1..Len(meds) :
                   /\ meds[j].attributes = << EvAttr("CycleNumber", j) >>
                   /\ Related(meds[j], "drug_admin") = { doses[j].id }
                   /\ doses[j].id = DoseId(hist[k].index, j)
             /\ \A i \in ObjectsOf(k, "TreatmentPlan") :
                   Current(objects[i], "status") =
                      IF Len(meds) > 0 THEN "Proceed" ELSE "Planned"

\* a trace whose plan was made by the joint consult and stayed "Planned"
\* until the first of its two medication events
C26_Witness ==
    /\ Len(hist) = 1
    /\ hist[1].activities =
          << "JointConsult", "MedicationTreatment", "MedicationTreatment" >>
    /\ Len(MedicationEventsOf(1)) = 2
    /\ ctx.med_cycles = 2
    /\ \E i \in ObjectsOf(1, "TreatmentPlan") :
          /\ Current(objects[i], "status") = "Proceed"
          /\ \E j \in 1..Len(objects[i].attributes) :
                objects[i].attributes[j].value = "Planned"

=============================================================================
